---- MODULE Spec2Model ----
(***************************************************************************)
(* A model of etl_connector.py: the configuration's endpoint list, the     *)
(* Extract / Transform / Load / Debug steps and the run() loop that        *)
(* sequences them per endpoint and absorbs their exceptions.               *)
(*                                                                         *)
(* Python strings are sequences of one-character strings.  Python lists    *)
(* and dicts are objects on a heap (a sequence of objects, the address is  *)
(* the index), so that identity and sharing are visible; scalars are       *)
(* immediate values.  What arrives from the network, and what the database *)
(* stores, are JSON trees (values without identity).                       *)
(***************************************************************************)
EXTENDS Integers, Sequences, FiniteSets, TLC

VARIABLES
    env_csv,        \* the API_ENDPOINTS environment value
    pc,             \* position of run(): config, extract, transform, load, debug, report, done
    endpoints,      \* cfg["api_endpoints"]
    i,              \* 1-based index of the endpoint the for loop is at
    response,       \* the last outcome of session.get
    heap,           \* the Python objects allocated so far
    raw_records,    \* run's raw_records: a reference to a list, or None
    meta,           \* run's meta
    docs,           \* run's docs: a reference to a list, or None
    total_inserted, \* run's total_inserted
    db,             \* the documents the collection holds, with the endpoint index that wrote them
    connections,    \* how many MongoClient objects were constructed
    files,          \* the debug files written
    log,            \* the logger's records
    clock,          \* the last reading of the UTC clock
    trace           \* history: every step taken, with its endpoint index and outcome

vars == <<env_csv, pc, endpoints, i, response, heap, raw_records, meta, docs,
          total_inserted, db, connections, files, log, clock, trace>>

(***************************************************************************)
(* Bounds                                                                  *)
(***************************************************************************)
MaxCsvLen == 4      \* longest API_ENDPOINTS string of the configuration specification
RunCsvLen == 3      \* longest API_ENDPOINTS string of a modelled run
MaxRecords == 3     \* longest record array a response of a modelled run carries
MaxArrayLen == 2    \* longest array among the bodies given to extract alone
MaxClock == 1       \* the clock readings of a modelled run are 0..MaxClock

(***************************************************************************)
(* Strings                                                                 *)
(***************************************************************************)
Whitespace == {" "}

CsvAlphabet == {"a", "b", " ", "/", ","}
RunCsvAlphabet == {"a", ","}

StringsOver(alphabet, n) == UNION {[1..k -> alphabet] : k \in 0..n}

RECURSIVE split(_, _)
\* str.split(sep): the pieces between separators; always at least one piece.
split(s, sep) ==
    IF \A k \in 1..Len(s) : s[k] # sep
    THEN <<s>>
    ELSE LET at == CHOOSE k \in 1..Len(s) :
                       s[k] = sep /\ \A j \in 1..(k - 1) : s[j] # sep
         IN <<SubSeq(s, 1, at - 1)>> \o split(SubSeq(s, at + 1, Len(s)), sep)

RECURSIVE lstrip(_, _)
\* str.lstrip(chars): drop leading characters that are in chars.
lstrip(s, chars) ==
    IF s # <<>> /\ Head(s) \in chars THEN lstrip(Tail(s), chars) ELSE s

RECURSIVE rstrip(_, _)
rstrip(s, chars) ==
    IF s # <<>> /\ s[Len(s)] \in chars
    THEN rstrip(SubSeq(s, 1, Len(s) - 1), chars)
    ELSE s

\* str.strip(): drop whitespace at both ends.
strip(s) == rstrip(lstrip(s, Whitespace), Whitespace)

RECURSIVE SelectMap(_)
\* [e.strip().lstrip("/") for e in pieces if e.strip()]
SelectMap(pieces) ==
    IF pieces = <<>> THEN <<>>
    ELSE LET e == Head(pieces)
         IN (IF strip(e) # <<>> THEN <<lstrip(strip(e), {"/"})>> ELSE <<>>)
            \o SelectMap(Tail(pieces))

\* load_config's api_endpoints.
api_endpoints(csv) == SelectMap(split(csv, ","))

(***************************************************************************)
(* Values                                                                  *)
(***************************************************************************)
None == [t |-> "none"]
Imm(s) == [t |-> "imm", s |-> s]            \* a JSON scalar, by its text
Str(chars) == [t |-> "str", chars |-> chars] \* a Python str built by the program
Time(n) == [t |-> "time", n |-> n]           \* a datetime
Ref(a) == [t |-> "ref", a |-> a]             \* the list or dict at heap address a

ListOf(items) == [t |-> "list", items |-> items]
DictOf(fields) == [t |-> "dict", fields |-> fields]

NotJson == [t |-> "notjson"]                 \* a body that json() cannot parse

IsList(h, r) == r.t = "ref" /\ h[r.a].t = "list"
IsDict(h, r) == r.t = "ref" /\ h[r.a].t = "dict"

\* A fixed enumeration of a finite set, to walk a dict's keys.
RECURSIVE SeqOfSet(_)
SeqOfSet(S) ==
    IF S = {} THEN <<>>
    ELSE LET x == CHOOSE y \in S : TRUE IN <<x>> \o SeqOfSet(S \ {x})

RECURSIVE Alloc(_, _), AllocItems(_, _, _), AllocFields(_, _, _, _)
\* response.json(): builds the Python objects of a JSON tree, children first.
Alloc(h, tree) ==
    CASE tree.t = "list" ->
            LET sub == AllocItems(h, tree.items, <<>>)
            IN [h |-> Append(sub.h, ListOf(sub.refs)), r |-> Ref(Len(sub.h) + 1)]
      [] tree.t = "dict" ->
            LET sub == AllocFields(h, tree.fields, SeqOfSet(DOMAIN tree.fields), <<>>)
            IN [h |-> Append(sub.h, DictOf(sub.refs)), r |-> Ref(Len(sub.h) + 1)]
      [] OTHER -> [h |-> h, r |-> tree]

AllocItems(h, items, acc) ==
    IF items = <<>> THEN [h |-> h, refs |-> acc]
    ELSE LET one == Alloc(h, Head(items))
         IN AllocItems(one.h, Tail(items), Append(acc, one.r))

AllocFields(h, fields, keys, acc) ==
    IF keys = <<>> THEN [h |-> h, refs |-> acc]
    ELSE LET one == Alloc(h, fields[Head(keys)])
         IN AllocFields(one.h, fields, Tail(keys), acc @@ (Head(keys) :> one.r))

RECURSIVE Value(_, _)
\* The JSON tree a reference stands for (what a serializer sees).
Value(h, r) ==
    IF r.t # "ref" THEN r
    ELSE IF h[r.a].t = "list"
         THEN ListOf([k \in 1..Len(h[r.a].items) |-> Value(h, h[r.a].items[k])])
         ELSE DictOf([key \in DOMAIN h[r.a].fields |-> Value(h, h[r.a].fields[key])])

RECURSIVE Reach(_, _)
\* The heap addresses reachable from a reference: the mutable state it gives access to.
Reach(h, r) ==
    IF r.t # "ref" THEN {}
    ELSE {r.a} \cup
         (IF h[r.a].t = "list"
          THEN UNION {Reach(h, h[r.a].items[k]) : k \in 1..Len(h[r.a].items)}
          ELSE UNION {Reach(h, h[r.a].fields[key]) : key \in DOMAIN h[r.a].fields})

(***************************************************************************)
(* Extract                                                                 *)
(***************************************************************************)
LogRec(level, msg, text, n) == [level |-> level, msg |-> msg, text |-> text, n |-> n]

\* Mutant: only server errors raise.
raise_for_status_5xx(status) == 500 <= status /\ status < 600

\* requests' Response.raise_for_status raises HTTPError for 400 <= status < 600.
raise_for_status(status) == 400 <= status /\ status < 600

\* requests' Response.ok: raise_for_status() does not raise.
ResponseOk(status) == ~raise_for_status(status)

\* Mutant: items is looked up before data.
KeyPrecedenceSwapped == <<"items", "data", "results">>

\* for key in ("data", "items", "results")
KeyPrecedence == <<"data", "items", "results">>

ensure_list_payload(h, data) ==
    IF IsList(h, data) THEN [h |-> h, r |-> data]
    ELSE IF IsDict(h, data)
    THEN LET f == h[data.a].fields
             hits == {k \in 1..Len(KeyPrecedence) :
                         /\ KeyPrecedence[k] \in DOMAIN f
                         /\ IsList(h, f[KeyPrecedence[k]])}
         IN IF hits # {}
            THEN [h |-> h, r |-> f[KeyPrecedence[CHOOSE k \in hits : \A j \in hits : k <= j]]]
            ELSE [h |-> Append(h, ListOf(<<data>>)), r |-> Ref(Len(h) + 1)]
    ELSE [h |-> Append(h, ListOf(<<>>)), r |-> Ref(Len(h) + 1)]

\* urljoin(f"{base_url}/", endpoint) for a relative endpoint path.
BaseUrl == <<"h">>
url_of(endpoint) == BaseUrl \o <<"/">> \o endpoint

Raised(exc, h, logs) ==
    [exc |-> exc, h |-> h, records |-> None, meta |-> None, logs |-> logs]

extract(h, endpoint, resp) ==
    LET url == url_of(endpoint)
        l0 == <<LogRec("INFO", "Fetching", url, 0)>>
    IN IF resp.kind = "error" THEN Raised("ConnectionError", h, l0)
       ELSE
       LET l1 == l0 \o (IF resp.status = 429
                        THEN <<LogRec("WARNING", "Rate limited", url, 429)>> ELSE <<>>)
           l2 == l1 \o (IF ~ResponseOk(resp.status)
                        THEN <<LogRec("ERROR", "HTTP error", url, resp.status)>> ELSE <<>>)
       IN IF ~ResponseOk(resp.status) /\ raise_for_status(resp.status)
          THEN Raised("HTTPError", h, l2)
          ELSE IF resp.body = NotJson
          THEN Raised("JSONDecodeError", h,
                      l2 \o <<LogRec("ERROR", "Failed to parse JSON", url, 0)>>)
          ELSE LET data == Alloc(h, resp.body)
                   recs == ensure_list_payload(data.h, data.r)
               IN [exc |-> "none", h |-> recs.h, records |-> recs.r,
                   meta |-> [status_code |-> resp.status, url |-> url,
                             record_count |-> Len(recs.h[recs.r.a].items)],
                   logs |-> l2]

(***************************************************************************)
(* Transform                                                               *)
(***************************************************************************)
\* dict(record): a copy of a dict's items; {} for an empty list; an exception
\* for anything that is not a sequence of pairs (no body of the model holds
\* an array of two-element arrays or a string of two characters).
dict(h, record) ==
    IF IsDict(h, record) THEN [exc |-> "none", fields |-> h[record.a].fields]
    ELSE IF IsList(h, record) /\ h[record.a].items = <<>>
    THEN [exc |-> "none", fields |-> <<>>]
    ELSE IF IsList(h, record) \/ record = Imm("x")
    THEN [exc |-> "ValueError", fields |-> <<>>]
    ELSE [exc |-> "TypeError", fields |-> <<>>]

RECURSIVE transform_loop(_, _, _, _, _)
transform_loop(h, items, endpoint, ingested_at, transformed) ==
    IF items = <<>>
    THEN [exc |-> "none", h |-> Append(h, ListOf(transformed)), r |-> Ref(Len(h) + 1)]
    ELSE LET copy == dict(h, Head(items))
         IN IF copy.exc # "none" THEN [exc |-> copy.exc, h |-> h, r |-> None]
            ELSE LET doc == DictOf(("ingested_at" :> Time(ingested_at)
                                    @@ "source_endpoint" :> Str(endpoint))
                                   @@ copy.fields)
                     h2 == Append(h, doc)
                 IN transform_loop(h2, Tail(items), endpoint, ingested_at,
                                   Append(transformed, Ref(Len(h2))))

RECURSIVE in_place_loop(_, _, _, _, _)
in_place_loop(h, items, endpoint, ingested_at, transformed) ==
    IF items = <<>>
    THEN [exc |-> "none", h |-> Append(h, ListOf(transformed)), r |-> Ref(Len(h) + 1)]
    ELSE IF ~IsDict(h, Head(items)) THEN [exc |-> "TypeError", h |-> h, r |-> None]
    ELSE LET a == Head(items).a
             doc == DictOf(("ingested_at" :> Time(ingested_at)
                            @@ "source_endpoint" :> Str(endpoint))
                           @@ h[a].fields)
         IN in_place_loop([h EXCEPT ![a] = doc], Tail(items), endpoint, ingested_at,
                          Append(transformed, Head(items)))

\* Mutant: doc = record, without the copy.
transform_in_place(h, records, endpoint, now) ==
    in_place_loop(h, h[records.a].items, endpoint, now, <<>>)

transform(h, records, endpoint, now) ==
    transform_loop(h, h[records.a].items, endpoint, now, <<>>)

(***************************************************************************)
(* Load                                                                    *)
(***************************************************************************)
\* What insert_many(documents, ordered=False) can meet: every write
\* acknowledged; write errors on some documents (here the first, the last or
\* all of them: BulkWriteError, raised after the other documents were
\* written); no server reachable.
LoadOutcomes(n) ==
    {[kind |-> "ok", failed |-> {}], [kind |-> "unreachable", failed |-> {}]}
    \cup {[kind |-> "write_errors", failed |-> F] : F \in {{1}, {n}, 1..n} \ {{}}}

Keep(items, failed) ==
    LET F[k \in 0..Len(items)] ==
            IF k = 0 THEN <<>>
            ELSE IF k \in failed THEN F[k - 1] ELSE Append(F[k - 1], items[k])
    IN F[Len(items)]

\* Mutant: the client is constructed before the emptiness test.
load_to_mongo_connect_first(h, documents, outcome) ==
    LET items == h[documents.a].items
        written == [k \in 1..Len(items) |-> Value(h, items[k])]
    IN IF items = <<>>
       THEN [exc |-> "none", inserted |-> 0, stored |-> <<>>, connected |-> 1]
       ELSE CASE outcome.kind = "ok" ->
                    [exc |-> "none", inserted |-> Len(items),
                     stored |-> written, connected |-> 1]
              [] outcome.kind = "write_errors" ->
                    [exc |-> "BulkWriteError", inserted |-> 0,
                     stored |-> Keep(written, outcome.failed), connected |-> 1]
              [] OTHER ->
                    [exc |-> "ServerSelectionTimeoutError", inserted |-> 0,
                     stored |-> <<>>, connected |-> 1]

\* Mutant: a BulkWriteError is swallowed and len(documents) is returned.
load_to_mongo_count_documents(h, documents, outcome) ==
    LET items == h[documents.a].items
        written == [k \in 1..Len(items) |-> Value(h, items[k])]
    IN IF items = <<>>
       THEN [exc |-> "none", inserted |-> 0, stored |-> <<>>, connected |-> 0]
       ELSE CASE outcome.kind = "ok" ->
                    [exc |-> "none", inserted |-> Len(items),
                     stored |-> written, connected |-> 1]
              [] outcome.kind = "write_errors" ->
                    [exc |-> "none", inserted |-> Len(items),
                     stored |-> Keep(written, outcome.failed), connected |-> 1]
              [] OTHER ->
                    [exc |-> "ServerSelectionTimeoutError", inserted |-> 0,
                     stored |-> <<>>, connected |-> 1]

load_to_mongo(h, documents, outcome) ==
    LET items == h[documents.a].items
        written == [k \in 1..Len(items) |-> Value(h, items[k])]
    IN IF items = <<>>
       THEN [exc |-> "none", inserted |-> 0, stored |-> <<>>, connected |-> 0]
       ELSE CASE outcome.kind = "ok" ->
                    [exc |-> "none", inserted |-> Len(items),
                     stored |-> written, connected |-> 1]
              [] outcome.kind = "write_errors" ->
                    [exc |-> "BulkWriteError", inserted |-> 0,
                     stored |-> Keep(written, outcome.failed), connected |-> 1]
              [] OTHER ->
                    [exc |-> "ServerSelectionTimeoutError", inserted |-> 0,
                     stored |-> <<>>, connected |-> 1]

(***************************************************************************)
(* Debug sink                                                              *)
(***************************************************************************)
RECURSIVE json_dump(_)
\* json.dump(..., default=str): a datetime is written as its string.
json_dump(tree) ==
    CASE tree.t = "list" -> ListOf([k \in 1..Len(tree.items) |-> json_dump(tree.items[k])])
      [] tree.t = "dict" -> DictOf([key \in DOMAIN tree.fields |-> json_dump(tree.fields[key])])
      [] tree.t = "time" -> Str(<<ToString(tree.n)>>)
      [] OTHER -> tree

write_debug_json(h, endpoint, records, ts, outcome) ==
    IF outcome = "oserror"
    THEN [exc |-> "OSError", name |-> <<>>, content |-> None]
    ELSE [exc |-> "none",
          name |-> endpoint \o <<"_", ToString(ts), ".", "j", "s", "o", "n">>,
          content |-> json_dump(Value(h, records))]

(***************************************************************************)
(* run()                                                                   *)
(***************************************************************************)
\* The for statement: the body for endpoint k, or what follows the loop.
LoopPc(k, eps) == IF k <= Len(eps) THEN "extract" ELSE "report"

\* Mutant: no except clause, the exception leaves run().
after_step_abort(step, exc, k, eps) ==
    IF exc # "none" THEN [pc |-> "aborted", i |-> k]
    ELSE CASE step = "extract" -> [pc |-> "transform", i |-> k]
           [] step = "transform" -> [pc |-> "load", i |-> k]
           [] step = "load" -> [pc |-> "debug", i |-> k]
           [] OTHER -> [pc |-> LoopPc(k + 1, eps), i |-> k + 1]

\* Mutant: a failed Debug Sink sends the endpoint through the body again.
after_step_retry(step, exc, k, eps) ==
    IF exc # "none"
    THEN IF step = "debug" THEN [pc |-> "extract", i |-> k]
         ELSE [pc |-> LoopPc(k + 1, eps), i |-> k + 1]
    ELSE CASE step = "extract" -> [pc |-> "transform", i |-> k]
           [] step = "transform" -> [pc |-> "load", i |-> k]
           [] step = "load" -> [pc |-> "debug", i |-> k]
           [] OTHER -> [pc |-> LoopPc(k + 1, eps), i |-> k + 1]

\* Control after a step of the try body for endpoint k: an exception goes to
\* the except clause and from there to the next iteration; otherwise the
\* next statement of the body runs.
after_step(step, exc, k, eps) ==
    IF exc # "none" THEN [pc |-> LoopPc(k + 1, eps), i |-> k + 1]
    ELSE CASE step = "extract" -> [pc |-> "transform", i |-> k]
           [] step = "transform" -> [pc |-> "load", i |-> k]
           [] step = "load" -> [pc |-> "debug", i |-> k]
           [] OTHER -> [pc |-> LoopPc(k + 1, eps), i |-> k + 1]

\* Mutant: total_inserted = inserted
add_inserted_overwrite(total, inserted) == inserted

\* total_inserted += inserted
add_inserted(total, inserted) == total + inserted

\* logger.exception("Failed processing endpoint '%s'", endpoint)
FailureLog(exc, endpoint) ==
    IF exc # "none"
    THEN <<[level |-> "ERROR", msg |-> "Failed processing endpoint",
            text |-> endpoint, n |-> 0, exc |-> exc]>>
    ELSE <<>>

\* A history record: the step, its endpoint index, how it ended, the count it returned.
Step(step, exc, ret) == [ep |-> i, step |-> step, exc |-> exc, ret |-> ret]

\* The clock does not run backwards; two readings may coincide.
ClockReads == {t \in {clock, clock + 1} : t <= MaxClock}

\* Lines 178-182: the configuration and the initial total.
LoadConfig ==
    /\ pc = "config"
    /\ endpoints' = api_endpoints(env_csv)
    /\ total_inserted' = 0
    /\ i' = 1
    /\ pc' = LoopPc(1, endpoints')
    /\ UNCHANGED <<env_csv, response, heap, raw_records, meta, docs, db,
                   connections, files, log, clock, trace>>

\* Lines 185-186: extract and the record-count log line.
ExtractStep(resp) ==
    /\ pc = "extract"
    /\ LET r == extract(heap, endpoints[i], resp)
           nxt == after_step("extract", r.exc, i, endpoints)
       IN /\ response' = resp
          /\ heap' = r.h
          /\ raw_records' = IF r.exc = "none" THEN r.records ELSE raw_records
          /\ meta' = IF r.exc = "none" THEN r.meta ELSE meta
          /\ log' = log \o r.logs \o
                    (IF r.exc = "none"
                     THEN <<LogRec("INFO", "Fetched", r.meta.url, r.meta.record_count)>>
                     ELSE FailureLog(r.exc, endpoints[i]))
          /\ trace' = Append(trace, Step("extract", r.exc,
                                        IF r.exc = "none" THEN r.meta.record_count ELSE 0))
          /\ pc' = nxt.pc
          /\ i' = nxt.i
    /\ UNCHANGED <<env_csv, endpoints, docs, total_inserted, db, connections,
                   files, clock>>

\* Line 188.
TransformStep ==
    /\ pc = "transform"
    /\ \E now \in ClockReads :
         LET r == transform(heap, raw_records, endpoints[i], now)
             nxt == after_step("transform", r.exc, i, endpoints)
         IN /\ clock' = now
            /\ heap' = r.h
            /\ docs' = IF r.exc = "none" THEN r.r ELSE docs
            /\ log' = log \o FailureLog(r.exc, endpoints[i])
            /\ trace' = Append(trace, Step("transform", r.exc,
                                          IF r.exc = "none" THEN Len(r.h[r.r.a].items) ELSE 0))
            /\ pc' = nxt.pc
            /\ i' = nxt.i
    /\ UNCHANGED <<env_csv, endpoints, response, raw_records, meta,
                   total_inserted, db, connections, files>>

\* Lines 189-193.
LoadStep ==
    /\ pc = "load"
    /\ \E outcome \in LoadOutcomes(Len(heap[docs.a].items)) :
         LET r == load_to_mongo(heap, docs, outcome)
             nxt == after_step("load", r.exc, i, endpoints)
         IN /\ connections' = connections + r.connected
            /\ db' = db \o [k \in 1..Len(r.stored) |-> [ep |-> i, doc |-> r.stored[k]]]
            /\ total_inserted' = IF r.exc = "none"
                                 THEN add_inserted(total_inserted, r.inserted)
                                 ELSE total_inserted
            /\ log' = log \o
                      (IF r.exc = "none"
                       THEN <<LogRec("INFO", "Inserted", <<>>, r.inserted)>>
                       ELSE FailureLog(r.exc, endpoints[i]))
            /\ trace' = Append(trace, Step("load", r.exc, r.inserted))
            /\ pc' = nxt.pc
            /\ i' = nxt.i
    /\ UNCHANGED <<env_csv, endpoints, response, heap, raw_records, meta, docs,
                   files, clock>>

\* Lines 195-196.
DebugStep ==
    /\ pc = "debug"
    /\ \E ts \in ClockReads, outcome \in {"ok", "oserror"} :
         LET r == write_debug_json(heap, endpoints[i], docs, ts, outcome)
             nxt == after_step("debug", r.exc, i, endpoints)
         IN /\ clock' = ts
            /\ files' = IF r.exc = "none"
                        THEN {f \in files : f.name # r.name}
                             \cup {[name |-> r.name, content |-> r.content]}
                        ELSE files
            /\ log' = log \o
                      (IF r.exc = "none"
                       THEN <<LogRec("INFO", "Wrote", r.name, 0)>>
                       ELSE FailureLog(r.exc, endpoints[i]))
            /\ trace' = Append(trace, Step("debug", r.exc, 0))
            /\ pc' = nxt.pc
            /\ i' = nxt.i
    /\ UNCHANGED <<env_csv, endpoints, response, heap, raw_records, meta, docs,
                   total_inserted, db, connections>>

\* Line 200.
Report ==
    /\ pc = "report"
    /\ log' = Append(log, LogRec("INFO", "Done. Total inserted", <<>>, total_inserted))
    /\ pc' = "done"
    /\ UNCHANGED <<env_csv, endpoints, i, response, heap, raw_records, meta, docs,
                   total_inserted, db, connections, files, clock, trace>>

(***************************************************************************)
(* Inputs                                                                  *)
(***************************************************************************)
Rec(j) == DictOf("id" :> Imm(ToString(j)) @@ "tags" :> ListOf(<<Imm("x")>>))
Flat == DictOf("id" :> Imm("1") @@ "source_endpoint" :> Imm("x"))

RunBodies ==
    {NotJson, Imm("5"), Flat,
     ListOf(<<Rec(1), Imm("5")>>),
     DictOf("data" :> ListOf(<<Rec(1)>>))}
    \cup {ListOf([j \in 1..k |-> Rec(j)]) : k \in 0..MaxRecords}

Http(status, body) == [kind |-> "http", status |-> status, body |-> body]
NetworkError == [kind |-> "error", status |-> 0, body |-> NotJson]

RunResponses ==
    {NetworkError, Http(304, NotJson), Http(404, NotJson)}
    \cup {Http(200, b) : b \in RunBodies}

(***************************************************************************)
(* Specifications                                                          *)
(***************************************************************************)
Start(csvs) ==
    /\ env_csv \in csvs
    /\ pc = "config"
    /\ endpoints = <<>>
    /\ i = 1
    /\ response = None
    /\ heap = <<>>
    /\ raw_records = None
    /\ meta = None
    /\ docs = None
    /\ total_inserted = 0
    /\ db = <<>>
    /\ connections = 0
    /\ files = {}
    /\ log = <<>>
    /\ clock = 0
    /\ trace = <<>>

Init == Start(StringsOver(RunCsvAlphabet, RunCsvLen))

Next ==
    \/ LoadConfig
    \/ \E resp \in RunResponses : ExtractStep(resp)
    \/ TransformStep
    \/ LoadStep
    \/ DebugStep
    \/ Report

Spec == Init /\ [][Next]_vars

\* run() is a sequential program: it takes its next step whenever it has one.
FairSpec == Spec /\ WF_vars(Next)

(***************************************************************************)
(* load_config alone, over every API_ENDPOINTS string of the alphabet      *)
(***************************************************************************)
InitConfig == Start(StringsOver(CsvAlphabet, MaxCsvLen))

NextConfig == LoadConfig

SpecConfig == InitConfig /\ [][NextConfig]_vars

(***************************************************************************)
(* extract alone, over every status and body of the sets below, called by  *)
(* run() for the one endpoint of API_ENDPOINTS = "a"                       *)
(***************************************************************************)
R1 == DictOf("id" :> Imm("1"))
R2 == DictOf("id" :> Imm("2"))

Scalars == {Imm("5"), Imm("true"), Imm("x"), Imm("null")}
ElemTrees == {Imm("5"), R1, R2}
FieldTrees == {Imm("x"), R1, ListOf(<<>>), ListOf(<<R1>>), ListOf(<<R2, R1>>)}
Keys == {"data", "items", "results", "id"}

ArrayBodies == {ListOf(items) : items \in StringsOver(ElemTrees, MaxArrayLen)}
ObjectBodies == {DictOf(f) : f \in UNION {[K -> FieldTrees] : K \in SUBSET Keys}}

ExtractBodies == {NotJson} \cup Scalars \cup ArrayBodies \cup ObjectBodies

HttpStatuses == {100, 101, 199, 200, 201, 204, 299, 300, 301, 304, 399,
                 400, 404, 429, 499, 500, 503, 599}

InitExtract ==
    /\ env_csv = <<"a">>
    /\ pc = "extract"
    /\ endpoints = <<<<"a">>>>
    /\ i = 1
    /\ response = None
    /\ heap = <<>>
    /\ raw_records = None
    /\ meta = None
    /\ docs = None
    /\ total_inserted = 0
    /\ db = <<>>
    /\ connections = 0
    /\ files = {}
    /\ log = <<>>
    /\ clock = 0
    /\ trace = <<>>

NextExtract ==
    /\ pc = "extract"
    /\ \/ ExtractStep(NetworkError)
       \/ \E s \in HttpStatuses, b \in ExtractBodies : ExtractStep(Http(s, b))

SpecExtract == InitExtract /\ [][NextExtract]_vars

(***************************************************************************)
(* Properties                                                              *)
(***************************************************************************)
Last(q) == q[Len(q)]

StepsOf(step) == SelectSeq(trace, LAMBDA e : e.step = step)

RECURSIVE SumRet(_)
SumRet(q) == IF q = <<>> THEN 0 ELSE Head(q).ret + SumRet(Tail(q))

\* The endpoints whose Load returned.
LoadReturned(tr, ep) ==
    \E k \in DOMAIN tr :
        tr[k].ep = ep /\ tr[k].step = "load" /\ tr[k].exc = "none"

\* The documents endpoint ep's Load put into the collection.
InsertedBy(ep) == Cardinality({k \in DOMAIN db : db[k].ep = ep})

OncePerEndpoint ==
    \A j, k \in DOMAIN trace :
        (trace[j].ep = trace[k].ep /\ trace[j].step = trace[k].step) => j = k

\* C1: whatever the endpoint list and whatever steps raise, run() starts every
\* endpoint exactly once, in list order, and reaches the final report.
C1_RunCompletes ==
    <>(/\ pc = "done"
       /\ Len(StepsOf("extract")) = Len(endpoints)
       /\ \A k \in 1..Len(endpoints) : StepsOf("extract")[k].ep = k
       /\ OncePerEndpoint
       /\ Last(log).msg = "Done. Total inserted")

C1_Witness ==
    /\ pc = "done"
    /\ Len(endpoints) >= 2
    /\ trace[1].exc # "none"
    /\ Last(trace).ep = 2
    /\ Last(trace).exc # "none"

\* C2: at the end of run() the reported total is the sum of the counts returned
\* by the Loads that returned; an endpoint a step of which raised adds nothing
\* and is not tried again.
C2_TotalIsSumOfReturnedLoads ==
    pc = "done" =>
        /\ Last(log).n = total_inserted
        /\ total_inserted =
               SumRet(SelectSeq(trace, LAMBDA e : e.step = "load" /\ e.exc = "none"))
        /\ OncePerEndpoint

C2_Witness ==
    /\ pc = "done"
    /\ Len(endpoints) = 2
    /\ trace[1].exc = "HTTPError"
    /\ Last(log).n = 3

\* C3: a Load that wrote some documents of its batch and met write errors on
\* others returns the number written instead of raising, and the total counts
\* those documents.
C3_PartialInsertReturnsCount ==
    /\ \A k \in DOMAIN trace :
           (trace[k].step = "load" /\ InsertedBy(trace[k].ep) > 0)
               => (trace[k].exc = "none" /\ trace[k].ret = InsertedBy(trace[k].ep))
    /\ total_inserted = Len(db)

Extracted == trace # <<>> /\ response.kind = "http"

ExtractFailedWithHttpError ==
    /\ trace[1].exc = "HTTPError"
    /\ raw_records = None
    /\ heap = <<>>
    /\ Last(log).msg = "Failed processing endpoint"
    /\ Last(log).exc = "HTTPError"

\* C4 as stated: every final status outside 200..299 makes extract fail with an
\* HTTP error, with no records returned and the body never parsed.
C4_Non2xxFails ==
    (Extracted /\ ~(200 <= response.status /\ response.status <= 299))
        => ExtractFailedWithHttpError

\* C4 as amended: every final status in 400..599 makes extract fail with an
\* HTTP error that reaches run(), with no records returned and the body never
\* parsed; a status below 400 (1xx and 3xx like 2xx) never does: extract goes
\* on to parse the body.
C4_ErrorStatusFails ==
    Extracted =>
        /\ (400 <= response.status /\ response.status <= 599)
               => ExtractFailedWithHttpError
        /\ response.status < 400
               => trace[1].exc = (IF response.body = NotJson
                                  THEN "JSONDecodeError" ELSE "none")

C4_Witness ==
    Extracted /\ response.status = 404 /\ response.body # NotJson
              /\ trace[1].exc = "HTTPError"

HasList(tree, key) == key \in DOMAIN tree.fields /\ tree.fields[key].t = "list"

\* The record sequence C5 names for a parsed body.
ExpectedRecords(body) ==
    CASE body.t = "list" -> body.items
      [] body.t = "dict" ->
            IF HasList(body, "data") THEN body.fields["data"].items
            ELSE IF HasList(body, "items") THEN body.fields["items"].items
            ELSE IF HasList(body, "results") THEN body.fields["results"].items
            ELSE <<body>>
      [] OTHER -> <<>>

\* C5: for every body that parses, extract returns the records C5 names (the
\* array; the first list among data, items, results; the object alone; nothing
\* for a scalar) and record_count is their number.
C5_NormalizedRecords ==
    (Extracted /\ response.status < 400 /\ response.body # NotJson) =>
        /\ trace[1].exc = "none"
        /\ Value(heap, raw_records) = ListOf(ExpectedRecords(response.body))
        /\ meta.record_count = Len(ExpectedRecords(response.body))
        /\ trace[1].ret = meta.record_count

C5_Witness ==
    /\ Extracted
    /\ trace[1].exc = "none"
    /\ response.body.t = "dict"
    /\ DOMAIN response.body.fields = {"data", "items", "results"}
    /\ ~HasList(response.body, "data")
    /\ HasList(response.body, "items")
    /\ HasList(response.body, "results")
    /\ response.body.fields["items"] # response.body.fields["results"]
    /\ meta.record_count = 2

\* The endpoint list C6 names: every piece trimmed and stripped of leading
\* slashes, the empty results dropped.
ClaimedEndpoints(csv) ==
    LET pieces == split(csv, ",")
        cleaned == [k \in 1..Len(pieces) |-> lstrip(strip(pieces[k]), {"/"})]
    IN SelectSeq(cleaned, LAMBDA e : e # <<>>)

\* C6: the endpoint list holds the entries in order, trimmed and without
\* leading slashes, and no entry is empty or starts with a slash or whitespace.
C6_EndpointsCleanAndNonEmpty ==
    pc # "config" =>
        /\ endpoints = ClaimedEndpoints(env_csv)
        /\ \A k \in DOMAIN endpoints :
               /\ endpoints[k] # <<>>
               /\ Head(endpoints[k]) \notin (Whitespace \cup {"/"})

Transformed == pc = "transform" /\ pc' = "load"

InputRecords == heap[raw_records.a].items
OutputRecords == heap'[docs'.a].items

\* What transform returns, and that no object that existed before the call changed.
TransformResult ==
    /\ Len(OutputRecords) = Len(InputRecords)
    /\ \A a \in DOMAIN heap : heap'[a] = heap[a]
    /\ \A k \in DOMAIN InputRecords :
           LET in == heap[InputRecords[k].a].fields
               out == heap'[OutputRecords[k].a].fields
           IN /\ DOMAIN out = DOMAIN in \cup {"ingested_at", "source_endpoint"}
              /\ out["ingested_at"] = Time(clock')
              /\ out["source_endpoint"] = Str(endpoints[i])
              /\ \A key \in DOMAIN in \ {"ingested_at", "source_endpoint"} :
                     out[key] = in[key]

\* C7 as stated: transform returns the input records' fields plus the two
\* provenance fields, leaves the input unchanged, and no output record shares
\* mutable state with an input record.
C7_NoSharedState ==
    [][Transformed =>
          /\ TransformResult
          /\ Reach(heap', docs') \cap Reach(heap, raw_records) = {}]_vars

\* What a shallow copy of record shares with it: all that the fields the copy
\* keeps give access to.
SharedBy(record) ==
    UNION {Reach(heap, heap[record.a].fields[key]) :
               key \in DOMAIN heap[record.a].fields \ {"ingested_at", "source_endpoint"}}

\* C7 as amended: the copy is shallow.  Each output record is a new mapping
\* with the input record's fields and the two provenance fields (replacing
\* fields of those names), ingested_at the same for the whole batch, and the
\* input is unchanged; but a list or object nested in an input record is the
\* same object in its output record.
C7_ShallowCopy ==
    [][Transformed =>
          /\ TransformResult
          /\ \A k \in DOMAIN OutputRecords :
                 /\ OutputRecords[k].a \notin DOMAIN heap
                 /\ \A j \in DOMAIN OutputRecords :
                        OutputRecords[j] = OutputRecords[k] => j = k
          /\ Reach(heap', docs') \cap Reach(heap, raw_records) =
                 UNION {SharedBy(InputRecords[k]) : k \in DOMAIN InputRecords}]_vars

C7_Witness ==
    /\ pc = "load"
    /\ Len(heap[docs.a].items) >= 2
    /\ Reach(heap, docs) \cap Reach(heap, raw_records) # {}

EmptyLoad == pc = "load" /\ heap[docs.a].items = <<>>

NothingFetched == \A k \in DOMAIN trace : trace[k].step = "extract" => trace[k].ret = 0

\* C8: a Load of no documents returns 0 and neither constructs a client nor
\* writes; so while every endpoint has yielded no record there is no
\* connection and the total is 0.
C8_EmptyLoadNoConnection ==
    [][/\ EmptyLoad =>
             /\ connections' = connections
             /\ db' = db
             /\ total_inserted' = total_inserted
             /\ Last(trace') = [ep |-> i, step |-> "load", exc |-> "none", ret |-> 0]
       /\ NothingFetched' =>
             (connections' = 0 /\ total_inserted' = 0 /\ db' = <<>>)]_vars

C8_Witness ==
    /\ pc = "done"
    /\ Len(endpoints) = 2
    /\ Len(StepsOf("load")) = 2
    /\ connections = 0

NextStep(step) ==
    CASE step = "extract" -> "transform"
      [] step = "transform" -> "load"
      [] step = "load" -> "debug"
      [] OTHER -> "none"

EndpointDone(e) == e.exc # "none" \/ e.step = "debug"

\* C9: within an endpoint the steps run in the order extract, transform, load,
\* debug, each only after the one before it returned; a failed step is the
\* endpoint's last; the next endpoint's extract starts only when the current
\* endpoint is done; and only a step that ran leaves its effect.
C9_StateMachine ==
    /\ \A k \in DOMAIN trace :
           IF k = 1 THEN trace[k].step = "extract" /\ trace[k].ep = 1
           ELSE IF trace[k].step = "extract"
           THEN trace[k].ep = trace[k - 1].ep + 1 /\ EndpointDone(trace[k - 1])
           ELSE /\ trace[k].ep = trace[k - 1].ep
                /\ trace[k - 1].exc = "none"
                /\ trace[k].step = NextStep(trace[k - 1].step)
    /\ pc \in {"transform", "load", "debug"} =>
           /\ trace # <<>>
           /\ Last(trace).ep = i
           /\ Last(trace).exc = "none"
           /\ pc = NextStep(Last(trace).step)
    /\ (pc = "extract" /\ trace # <<>>) =>
           (Last(trace).ep = i - 1 /\ EndpointDone(Last(trace)))
    /\ Cardinality(files) <=
           Len(SelectSeq(trace, LAMBDA e : e.step = "debug" /\ e.exc = "none"))
    /\ \A k \in DOMAIN db :
           \E j \in DOMAIN trace : trace[j].step = "load" /\ trace[j].ep = db[k].ep

C9_Witness ==
    /\ pc = "done"
    /\ Len(trace) = 6
    /\ trace[4].step = "debug"
    /\ trace[4].exc = "none"
    /\ trace[6].step = "transform"
    /\ trace[6].exc # "none"

\* C10: the total never decreases and always equals the number of documents
\* in the collection that were written by Loads that returned; a Debug Sink
\* failure is logged for the endpoint and takes back neither the total nor
\* the documents.
C10_TotalMatchesReturnedLoads ==
    [][/\ total_inserted' >= total_inserted
       /\ total_inserted' = Cardinality({k \in DOMAIN db' : LoadReturned(trace', db'[k].ep)})
       /\ (pc = "debug" /\ Last(trace').exc # "none") =>
              /\ db' = db
              /\ total_inserted' = total_inserted
              /\ Last(log').msg = "Failed processing endpoint"
              /\ Last(log').text = endpoints[i]]_vars

C10_Witness ==
    /\ pc = "done"
    /\ total_inserted > 0
    /\ Last(trace).step = "debug"
    /\ Last(trace).exc # "none"
    /\ InsertedBy(Last(trace).ep) > 0

====
